---- MODULE Spec2Model ----
(***************************************************************************)
(* Model of the gqlify Firestore data source                               *)
(* (src/packages/gqlify-firestore/src/index.ts) and of the many-to-many    *)
(* relation built on it (src/unnamed/part_001).                            *)
(*                                                                         *)
(* The Firestore database is the variable db: one document snapshot per    *)
(* path <<collection, key>>.  Every asynchronous method is a sequence of   *)
(* steps, one per awaited storage call; pc holds, per caller, the method   *)
(* being run, its arguments, its locals and its position.  A storage call  *)
(* may reject (Fault), which ends the method at that await.                *)
(***************************************************************************)
EXTENDS Integers, Sequences, FiniteSets, TLC

VARIABLES db, nextId, pc, calls

vars == <<db, nextId, pc, calls>>

(***************************************************************************)
(* Bounds                                                                  *)
(***************************************************************************)
\* document keys (auto-ids and the ids callers pass) are 1..MaxKeys
MaxKeys == 2
\* number of method calls started in one behaviour
MaxCalls == 3
\* number of array operations of a mutation
MaxOperations == 2
\* number of ids handed to addEmbedIds / removeEmbedIds
MaxEmbedIds == 2

Keys == 1..MaxKeys

Procs == {"p1", "p2"}

(***************************************************************************)
(* Models of the relation: singular name and data-source collection        *)
(***************************************************************************)
modelA == [singular |-> "A", collection |-> "as"]

modelB == [singular |-> "B", collection |-> "bs"]

\* `_${sourceSideName}_${targetSideName}`
relationTableName(sourceSideName, targetSideName) ==
  "_" \o sourceSideName \o "_" \o targetSideName

Collections ==
  { modelA.collection, modelB.collection,
    relationTableName(modelA.singular, modelB.singular),
    relationTableName(modelB.singular, modelA.singular) }

\* the key of `${table}/${id}` when id is undefined: the document "undefined"
UndefinedKey == 0

JoinTables ==
  { relationTableName(modelA.singular, modelB.singular),
    relationTableName(modelB.singular, modelA.singular) }

\* documents: every collection under the keys, and the join tables under the
\* key an undefined id gives as well
Paths == (Collections \X Keys) \cup (JoinTables \X {UndefinedKey})

(***************************************************************************)
(* Document snapshots and JavaScript values                                *)
(***************************************************************************)
EmptyData == [f \in {} |-> TRUE]

NoDoc == [exists |-> FALSE]

Doc(data) == [exists |-> TRUE, data |-> data]

\* the value `undefined` and a defined value
Undefined == [nil |-> TRUE]

\* a promise that has not settled yet
Pending == [pending |-> TRUE]

Val(v) == [nil |-> FALSE, val |-> v]

isNil(r) == r.nil

\* lodash isEmpty on an object or an array
isEmpty(x) == DOMAIN x = {}

\* doc.data(): undefined for a snapshot that does not exist
docData(snap) == IF snap.exists THEN Val(snap.data) ELSE Undefined

Range(s) == { s[i] : i \in DOMAIN s }

\* o2 written over o1, key by key
Assign(o1, o2) ==
  [f \in DOMAIN o1 \cup DOMAIN o2 |-> IF f \in DOMAIN o2 THEN o2[f] ELSE o1[f]]

(***************************************************************************)
(* Firestore primitives, as the data source calls them                     *)
(***************************************************************************)
\* a union that overwrites the stored array
arrayUnionReplace(arr, x) == <<x>>

\* a union that appends whether or not the element is stored
arrayUnionAppend(arr, x) == Append(arr, x)

\* FieldValue.arrayUnion(x) applied to the stored array: appended unless present
arrayUnion(arr, x) == IF x \in Range(arr) THEN arr ELSE Append(arr, x)

\* FieldValue.arrayRemove(x) applied to the stored array: every instance goes
arrayRemove(arr, x) == SelectSeq(arr, LAMBDA y : y # x)

\* the stored array a transform starts from: empty when the document or the
\* field is missing
storedArray(snap, field) ==
  IF snap.exists /\ field \in DOMAIN snap.data THEN snap.data[field] ELSE <<>>

\* ref.set({field: value}, {merge: true}): creates the document when missing,
\* keeps its other fields otherwise
setMerge(d, path, field, value) ==
  [d EXCEPT ![path] =
     Doc(Assign(IF d[path].exists THEN d[path].data ELSE EmptyData,
                [f \in {field} |-> value]))]

(***************************************************************************)
(* FirestoreDataSource                                                     *)
(***************************************************************************)
findOneById(d, collection, id) ==
  LET doc == d[<<collection, id>>]
  IN  IF ~doc.exists THEN Undefined ELSE Val(doc.data)

addIdToManyRelation(d, sourceSideName, targetSideName, sourceSideId, targetSideId) ==
  LET path == <<relationTableName(sourceSideName, targetSideName), sourceSideId>>
  IN  setMerge(d, path, "targetSideIds",
               arrayUnion(storedArray(d[path], "targetSideIds"), targetSideId))

removeIdFromManyRelation(d, sourceSideName, targetSideName, sourceSideId, targetSideId) ==
  LET path == <<relationTableName(sourceSideName, targetSideName), sourceSideId>>
  IN  setMerge(d, path, "targetSideIds",
               arrayRemove(storedArray(d[path], "targetSideIds"), targetSideId))

\* a transformation that writes every array operation, whatever its operator
RECURSIVE applyOperationsAny(_, _)
applyOperationsAny(payload, operations) ==
  IF operations = <<>> THEN payload
  ELSE applyOperationsAny(
         Assign(payload, [f \in {Head(operations).fieldName} |-> Head(operations).value]),
         Tail(operations))

\* transformMutation: getData() with every `set` array operation written over it
RECURSIVE applyOperations(_, _)
applyOperations(payload, operations) ==
  IF operations = <<>> THEN payload
  ELSE LET operation == Head(operations)
       IN  IF operation.operator # "set"
           THEN applyOperations(payload, Tail(operations))
           ELSE applyOperations(
                  Assign(payload, [f \in {operation.fieldName} |-> operation.value]),
                  Tail(operations))

transformMutation(mutation) == applyOperations(mutation.data, mutation.operations)

(***************************************************************************)
(* Callers: the method in progress, its arguments, locals and position     *)
(***************************************************************************)
EmptyDb == [path \in Paths |-> NoDoc]

NoMutation == [data |-> EmptyData, operations |-> <<>>]

Idle ==
  [op |-> "idle", step |-> "idle", status |-> "idle",
   a |-> 0, b |-> 0, collection |-> "", source |-> "", target |-> "",
   sourceId |-> 0, where |-> EmptyData, mutation |-> NoMutation,
   payload |-> EmptyData, ref |-> 0, ids |-> <<>>, records |-> <<>>,
   foreignKey |-> <<>>, ret |-> Undefined, faultAt |-> "", pre |-> EmptyDb]

\* a call of method op entered at position step, with the database it started from
Call(op, step) == [Idle EXCEPT !.op = op, !.step = step, !.status = "run", !.pre = db]

AllIdle == \A q \in Procs : pc[q].op = "idle"

\* p starts a method: p is free and the call budget is not used up
Enter(p, call) ==
  /\ pc[p].op = "idle"
  /\ calls < MaxCalls
  /\ calls' = calls + 1
  /\ pc' = [pc EXCEPT ![p] = call]
  /\ UNCHANGED <<db, nextId>>

At(p, step) == pc[p].status = "run" /\ pc[p].step = step

Goto(p, step) == pc' = [pc EXCEPT ![p].step = step]

Finish(p, ret) ==
  pc' = [pc EXCEPT ![p].step = "done", ![p].status = "ok", ![p].ret = ret]

\* the awaited call rejects: the method ends there with the fault
Reject(p) ==
  pc' = [pc EXCEPT ![p].step = "done", ![p].status = "fault",
                   ![p].faultAt = pc[p].step]

(***************************************************************************)
(* ManyToMany.addId                                                        *)
(***************************************************************************)
addId(p, modelAId, modelBId) ==
  Enter(p, [Call("addId", "addId.first") EXCEPT !.a = modelAId, !.b = modelBId])

\* the two writes issued in the other order
addIdFirstOther(p) ==
  /\ At(p, "addId.first")
  /\ db' = addIdToManyRelation(db, modelB.singular, modelA.singular, pc[p].b, pc[p].a)
  /\ Goto(p, "addId.second")
  /\ UNCHANGED <<nextId, calls>>

\* a first write that stores the union with the array read at the call's start
addIdFirstStale(p) ==
  /\ At(p, "addId.first")
  /\ LET path == <<relationTableName(modelA.singular, modelB.singular), pc[p].a>>
     IN  db' = setMerge(db, path, "targetSideIds",
                        arrayUnion(storedArray(pc[p].pre[path], "targetSideIds"), pc[p].b))
  /\ Goto(p, "addId.second")
  /\ UNCHANGED <<nextId, calls>>

\* await this.modelB.getDataSource().addIdToManyRelation(A, B, modelAId, modelBId)
\* FieldValue.arrayUnion(undefined) is refused: the write rejects unissued
addIdFirst(p) ==
  /\ At(p, "addId.first")
  /\ IF pc[p].b = UndefinedKey
     THEN /\ Reject(p)
          /\ UNCHANGED db
     ELSE /\ db' = addIdToManyRelation(db, modelA.singular, modelB.singular,
                                       pc[p].a, pc[p].b)
          /\ Goto(p, "addId.second")
  /\ UNCHANGED <<nextId, calls>>

\* the second write repeating the first one's arguments
addIdSecondCopy(p) ==
  /\ At(p, "addId.second")
  /\ db' = addIdToManyRelation(db, modelA.singular, modelB.singular, pc[p].a, pc[p].b)
  /\ Finish(p, Undefined)
  /\ UNCHANGED <<nextId, calls>>

\* await this.modelA.getDataSource().addIdToManyRelation(B, A, modelBId, modelAId)
\* FieldValue.arrayUnion(undefined) is refused: the write rejects unissued
addIdSecond(p) ==
  /\ At(p, "addId.second")
  /\ IF pc[p].a = UndefinedKey
     THEN /\ Reject(p)
          /\ UNCHANGED db
     ELSE /\ db' = addIdToManyRelation(db, modelB.singular, modelA.singular,
                                       pc[p].b, pc[p].a)
          /\ Finish(p, Undefined)
  /\ UNCHANGED <<nextId, calls>>

\* addId({modelAId, modelBId}) run alone and without fault on database d
addIdOn(d, modelAId, modelBId) ==
  addIdToManyRelation(
    addIdToManyRelation(d, modelA.singular, modelB.singular, modelAId, modelBId),
    modelB.singular, modelA.singular, modelBId, modelAId)

(***************************************************************************)
(* ManyToMany.removeId                                                     *)
(***************************************************************************)
removeId(p, modelAId, modelBId) ==
  Enter(p, [Call("removeId", "removeId.first") EXCEPT !.a = modelAId, !.b = modelBId])

removeIdFirst(p) ==
  /\ At(p, "removeId.first")
  /\ db' = removeIdFromManyRelation(db, modelA.singular, modelB.singular, pc[p].a, pc[p].b)
  /\ Goto(p, "removeId.second")
  /\ UNCHANGED <<nextId, calls>>

\* the second removal repeating the first one's arguments
removeIdSecondCopy(p) ==
  /\ At(p, "removeId.second")
  /\ db' = removeIdFromManyRelation(db, modelA.singular, modelB.singular, pc[p].a, pc[p].b)
  /\ Finish(p, Undefined)
  /\ UNCHANGED <<nextId, calls>>

removeIdSecond(p) ==
  /\ At(p, "removeId.second")
  /\ db' = removeIdFromManyRelation(db, modelB.singular, modelA.singular, pc[p].b, pc[p].a)
  /\ Finish(p, Undefined)
  /\ UNCHANGED <<nextId, calls>>

(***************************************************************************)
(* ManyToMany.joinModelA / joinModelB over findManyFromManyRelation        *)
(***************************************************************************)
\* a join that keeps a placeholder for every record that did not resolve
joinResultUnfiltered(records) ==
  [i \in DOMAIN records |-> IF isNil(records[i]) THEN EmptyData ELSE records[i].val]

\* records.filter(record => !isNil(record)), or [] when records is empty
joinResult(records) ==
  IF isEmpty(records) THEN <<>>
  ELSE LET kept == SelectSeq(records, LAMBDA r : ~isNil(r))
       IN  [i \in DOMAIN kept |-> kept[i].val]

\* this.modelA.getDataSource().findManyFromManyRelation(B, A, modelBId)
joinModelA(p, modelBId) ==
  Enter(p, [Call("joinModelA", "findMany.doc") EXCEPT
              !.b = modelBId, !.collection = modelA.collection,
              !.source = modelB.singular, !.target = modelA.singular,
              !.sourceId = modelBId])

\* this.modelB.getDataSource().findManyFromManyRelation(A, B, modelAId)
joinModelB(p, modelAId) ==
  Enter(p, [Call("joinModelB", "findMany.doc") EXCEPT
              !.a = modelAId, !.collection = modelB.collection,
              !.source = modelA.singular, !.target = modelB.singular,
              !.sourceId = modelAId])

\* the ids findManyFromManyRelation resolves: none when the join record has
\* no data or no ids, else targetSideIds without nil entries
targetSideIdsOf(d, sourceSideName, targetSideName, sourceSideId) ==
  LET docData_ == docData(d[<<relationTableName(sourceSideName, targetSideName), sourceSideId>>])
  IN  IF isNil(docData_) THEN <<>>
      ELSE IF "targetSideIds" \notin DOMAIN docData_.val THEN <<>>
      ELSE IF isEmpty(docData_.val.targetSideIds) THEN <<>>
      ELSE SelectSeq(docData_.val.targetSideIds, LAMBDA id : id # 0)

\* const doc = await ref.get(): [] is returned at once, or one findOneById
\* per id is issued
findManyFromManyRelation(p) ==
  /\ At(p, "findMany.doc")
  /\ LET ids == targetSideIdsOf(db, pc[p].source, pc[p].target, pc[p].sourceId)
     IN  IF isEmpty(ids)
         THEN Finish(p, joinResult(<<>>))
         ELSE pc' = [pc EXCEPT ![p].step = "findMany.all", ![p].ids = ids,
                               ![p].records = [i \in DOMAIN ids |-> Pending]]
  /\ UNCHANGED <<db, nextId, calls>>

\* one of the findOneById(id) of the Promise.all resolves; the last one to
\* resolve lets the join return
findManyFindOneById(p, i) ==
  /\ At(p, "findMany.all")
  /\ i \in DOMAIN pc[p].records
  /\ pc[p].records[i] = Pending
  /\ LET records == [pc[p].records EXCEPT ![i] = findOneById(db, pc[p].collection, pc[p].ids[i])]
     IN  IF \E j \in DOMAIN records : records[j] = Pending
         THEN pc' = [pc EXCEPT ![p].records = records]
         ELSE pc' = [pc EXCEPT ![p].records = records, ![p].step = "done",
                               ![p].status = "ok", ![p].ret = joinResult(records)]
  /\ UNCHANGED <<db, nextId, calls>>

\* what joinModelA(modelBId) returns when it runs alone on database d
joinModelAOn(d, modelBId) ==
  LET ids == targetSideIdsOf(d, modelB.singular, modelA.singular, modelBId)
  IN  joinResult([i \in DOMAIN ids |-> findOneById(d, modelA.collection, ids[i])])

\* what joinModelB(modelAId) returns when it runs alone on database d
joinModelBOn(d, modelAId) ==
  LET ids == targetSideIdsOf(d, modelA.singular, modelB.singular, modelAId)
  IN  joinResult([i \in DOMAIN ids |-> findOneById(d, modelB.collection, ids[i])])

(***************************************************************************)
(* FirestoreDataSource.create                                              *)
(***************************************************************************)
create(p, collection, mutation) ==
  Enter(p, [Call("create", "create.add") EXCEPT
              !.collection = collection, !.mutation = mutation,
              !.payload = transformMutation(mutation)])

\* const ref = await this.db.collection(this.collection).add(payload):
\* a new document under an auto-id no document of the collection ever had
createAdd(p) ==
  /\ At(p, "create.add")
  /\ nextId[pc[p].collection] < MaxKeys
  /\ LET id == nextId[pc[p].collection] + 1
     IN  /\ db' = [db EXCEPT ![<<pc[p].collection, id>>] = Doc(pc[p].payload)]
         /\ nextId' = [nextId EXCEPT ![pc[p].collection] = id]
         /\ pc' = [pc EXCEPT ![p].ref = id, ![p].step = "create.update"]
  /\ UNCHANGED calls

\* an update that replaces the document by the patch
updateDocReplace(d, path, patch) == [d EXCEPT ![path] = Doc(patch)]

\* ref.update(patch): rejects when the document does not exist
updateDoc(d, path, patch) ==
  [d EXCEPT ![path] = Doc(Assign(d[path].data, patch))]

\* a create that skips the back-fill of the id
createUpdateSkip(p) ==
  /\ At(p, "create.update")
  /\ Goto(p, "create.get")
  /\ UNCHANGED <<db, nextId, calls>>

\* await ref.update({ id: ref.id })
createUpdate(p) ==
  /\ At(p, "create.update")
  /\ LET path == <<pc[p].collection, pc[p].ref>>
     IN  IF db[path].exists
         THEN /\ db' = updateDoc(db, path, [id |-> pc[p].ref])
              /\ Goto(p, "create.get")
         ELSE /\ Reject(p)
              /\ UNCHANGED db
  /\ UNCHANGED <<nextId, calls>>

\* const doc = await ref.get(); return doc.data()
createGet(p) ==
  /\ At(p, "create.get")
  /\ pc[p].op = "create"
  /\ Finish(p, docData(db[<<pc[p].collection, pc[p].ref>>]))
  /\ UNCHANGED <<db, nextId, calls>>

(***************************************************************************)
(* FirestoreDataSource.update                                              *)
(***************************************************************************)
\* where.id.eq is a usable document key
hasIdEq(where) == "id" \in DOMAIN where /\ "eq" \in DOMAIN where["id"]

\* an update that builds the document reference before it looks at the payload
updateCallRefFirst(collection, where, mutation) ==
  LET payload == transformMutation(mutation)
      call == [Call("update", "update.update") EXCEPT
                 !.collection = collection, !.where = where,
                 !.mutation = mutation, !.payload = payload]
  IN  IF ~hasIdEq(where)
      THEN [call EXCEPT !.step = "done", !.status = "fault", !.faultAt = "update"]
      ELSE IF isEmpty(payload)
           THEN [call EXCEPT !.step = "done", !.status = "ok"]
           ELSE [call EXCEPT !.ref = where["id"]["eq"]]

\* an empty payload returns at once; where.id.eq of a where without id throws
updateCall(collection, where, mutation) ==
  LET payload == transformMutation(mutation)
      call == [Call("update", "update.update") EXCEPT
                 !.collection = collection, !.where = where,
                 !.mutation = mutation, !.payload = payload]
  IN  IF isEmpty(payload)
      THEN [call EXCEPT !.step = "done", !.status = "ok"]
      ELSE IF ~hasIdEq(where)
           THEN [call EXCEPT !.step = "done", !.status = "fault", !.faultAt = "update"]
           ELSE [call EXCEPT !.ref = where["id"]["eq"]]

update(p, collection, where, mutation) ==
  Enter(p, updateCall(collection, where, mutation))

\* await ref.update(payload)
updateUpdate(p) ==
  /\ At(p, "update.update")
  /\ LET path == <<pc[p].collection, pc[p].ref>>
     IN  IF db[path].exists
         THEN /\ db' = updateDoc(db, path, pc[p].payload)
              /\ Finish(p, Undefined)
         ELSE /\ Reject(p)
              /\ UNCHANGED db
  /\ UNCHANGED <<nextId, calls>>

(***************************************************************************)
(* FirestoreDataSource.delete                                              *)
(***************************************************************************)
deleteCall(collection, where) ==
  LET call == [Call("delete", "delete.delete") EXCEPT
                 !.collection = collection, !.where = where]
  IN  IF ~hasIdEq(where)
      THEN [call EXCEPT !.step = "done", !.status = "fault", !.faultAt = "delete"]
      ELSE [call EXCEPT !.ref = where["id"]["eq"]]

delete(p, collection, where) == Enter(p, deleteCall(collection, where))

\* await this.db.collection(this.collection).doc(where.id.eq).delete()
deleteDelete(p) ==
  /\ At(p, "delete.delete")
  /\ pc[p].op = "delete"
  /\ db' = [db EXCEPT ![<<pc[p].collection, pc[p].ref>>] = NoDoc]
  /\ Finish(p, Undefined)
  /\ UNCHANGED <<nextId, calls>>

(***************************************************************************)
(* ManyToMany cascades: createAndAddIdFor..., deleteAndRemoveIdFrom...     *)
(***************************************************************************)
\* getCreateMutationFactory().createMutation(data)
createMutation(data) == [data |-> data, operations |-> <<>>]

createAndAddIdForModelA(p, modelAId, modelBData) ==
  Enter(p, [Call("createAndAddIdForModelA", "create.add") EXCEPT
              !.a = modelAId, !.collection = modelB.collection,
              !.mutation = createMutation(modelBData),
              !.payload = transformMutation(createMutation(modelBData))])

createAndAddIdForModelB(p, modelBId, modelAData) ==
  Enter(p, [Call("createAndAddIdForModelB", "create.add") EXCEPT
              !.b = modelBId, !.collection = modelA.collection,
              !.mutation = createMutation(modelAData),
              !.payload = transformMutation(createMutation(modelAData))])

\* a cascade that links the id it was given instead of the created record's
createAndAddIdGetArgument(p) ==
  /\ At(p, "create.get")
  /\ pc[p].op \in {"createAndAddIdForModelA", "createAndAddIdForModelB"}
  /\ pc' = [pc EXCEPT ![p].step = "addId.first",
                      ![p].a = IF pc[p].op = "createAndAddIdForModelA" THEN pc[p].a ELSE pc[p].b,
                      ![p].b = IF pc[p].op = "createAndAddIdForModelA" THEN pc[p].a ELSE pc[p].b]
  /\ UNCHANGED <<db, nextId, calls>>

\* const record = await create(mutation), at create's ref.get(); then
\* return this.addId({modelAId, modelBId: record.id}) (or modelAId: record.id)
\* up to its first write.  record.id of an undefined record throws; a record
\* without the field id gives the id undefined and addId goes on with it.
createAndAddIdGet(p) ==
  /\ At(p, "create.get")
  /\ pc[p].op \in {"createAndAddIdForModelA", "createAndAddIdForModelB"}
  /\ LET record == docData(db[<<pc[p].collection, pc[p].ref>>])
         id == IF "id" \in DOMAIN record.val THEN record.val.id ELSE UndefinedKey
     IN  IF isNil(record)
         THEN Reject(p)
         ELSE IF pc[p].op = "createAndAddIdForModelA"
              THEN pc' = [pc EXCEPT ![p].ret = record, ![p].b = id,
                                    ![p].step = "addId.first"]
              ELSE pc' = [pc EXCEPT ![p].ret = record, ![p].a = id,
                                    ![p].step = "addId.first"]
  /\ UNCHANGED <<db, nextId, calls>>

deleteAndRemoveIdFromModelA(p, modelAId, modelBId) ==
  Enter(p, [Call("deleteAndRemoveIdFromModelA", "delete.delete") EXCEPT
              !.a = modelAId, !.b = modelBId, !.collection = modelA.collection,
              !.where = [id |-> [eq |-> modelAId]], !.ref = modelAId])

deleteAndRemoveIdFromModelB(p, modelAId, modelBId) ==
  Enter(p, [Call("deleteAndRemoveIdFromModelB", "delete.delete") EXCEPT
              !.a = modelAId, !.b = modelBId, !.collection = modelB.collection,
              !.where = [id |-> [eq |-> modelBId]], !.ref = modelBId])

\* a cascade that removes the link and leaves the record
deleteAndRemoveIdDeleteSkip(p) ==
  /\ At(p, "delete.delete")
  /\ pc[p].op \in {"deleteAndRemoveIdFromModelA", "deleteAndRemoveIdFromModelB"}
  /\ Goto(p, "removeId.first")
  /\ UNCHANGED <<db, nextId, calls>>

\* await getDataSource().delete({id: {[Operator.eq]: id}}); then
\* return this.removeId({modelAId, modelBId}) up to its first write
deleteAndRemoveIdDelete(p) ==
  /\ At(p, "delete.delete")
  /\ pc[p].op \in {"deleteAndRemoveIdFromModelA", "deleteAndRemoveIdFromModelB"}
  /\ db' = [db EXCEPT ![<<pc[p].collection, pc[p].ref>>] = NoDoc]
  /\ Goto(p, "removeId.first")
  /\ UNCHANGED <<nextId, calls>>

(***************************************************************************)
(* Faults and returns                                                      *)
(***************************************************************************)
\* the storage call p is awaiting rejects: nothing is written and the
\* rejection propagates out of the method
Fault(p) ==
  /\ pc[p].status = "run"
  /\ Reject(p)
  /\ UNCHANGED <<db, nextId, calls>>

\* the caller has taken the result
Return(p) ==
  /\ pc[p].step = "done"
  /\ pc' = [pc EXCEPT ![p] = Idle]
  /\ UNCHANGED <<db, nextId, calls>>

(***************************************************************************)
(* The relation, one call at a time                                        *)
(***************************************************************************)
\* the where of an id lookup: {id: {eq: id}}
whereId(id) == [id |-> [eq |-> id]]

\* the create mutations of the related models
RelationMutations == { [data |-> [name |-> "n"], operations |-> <<>>] }

\* the record create(mutation) leaves under key id: the payload plus its id
created(mutation, id) == Assign(transformMutation(mutation), [id |-> id])

\* The data sources are constructed over a database that earlier create calls
\* have filled: n[c] records in collection c, no join record yet.
Populated(n, mutations) ==
  /\ nextId = [c \in Collections |-> IF c \in DOMAIN n THEN n[c] ELSE 0]
  /\ \E m \in mutations :
       db = [path \in Paths |->
               IF path[1] \in DOMAIN n /\ path[2] <= n[path[1]]
               THEN Doc(created(m, path[2])) ELSE NoDoc]

\* every key but the last already names a record of either model
Init ==
  /\ Populated([c \in {modelA.collection, modelB.collection} |-> MaxKeys - 1],
               RelationMutations)
  /\ pc = [p \in Procs |-> Idle]
  /\ calls = 0

Begin(p) ==
  \/ \E a \in Keys, b \in Keys : addId(p, a, b)
  \/ \E a \in Keys, b \in Keys : removeId(p, a, b)
  \/ \E b \in Keys : joinModelA(p, b)
  \/ \E a \in Keys : joinModelB(p, a)
  \/ \E m \in RelationMutations, c \in {modelA.collection, modelB.collection} :
        create(p, c, m)
  \/ \E id \in Keys, c \in {modelA.collection, modelB.collection} :
        delete(p, c, whereId(id))

Step(p) ==
  \/ addIdFirst(p)
  \/ addIdSecond(p)
  \/ removeIdFirst(p)
  \/ removeIdSecond(p)
  \/ findManyFromManyRelation(p)
  \/ \E i \in 1..MaxKeys : findManyFindOneById(p, i)
  \/ createAdd(p)
  \/ createUpdate(p)
  \/ createGet(p)
  \/ deleteDelete(p)
  \/ Fault(p)
  \/ Return(p)

\* one caller, one call at a time
Next == \E p \in {"p1"} : (AllIdle /\ Begin(p)) \/ Step(p)

Spec == Init /\ [][Next]_vars

(***************************************************************************)
(* One relation, one call at a time: the four cascades                     *)
(***************************************************************************)
BeginCascade(p) ==
  \/ \E a \in Keys, m \in RelationMutations : createAndAddIdForModelA(p, a, m.data)
  \/ \E b \in Keys, m \in RelationMutations : createAndAddIdForModelB(p, b, m.data)
  \/ \E a \in Keys, b \in Keys : deleteAndRemoveIdFromModelA(p, a, b)
  \/ \E a \in Keys, b \in Keys : deleteAndRemoveIdFromModelB(p, a, b)

StepCascade(p) ==
  \/ addIdFirst(p)
  \/ addIdSecond(p)
  \/ removeIdFirst(p)
  \/ removeIdSecond(p)
  \/ createAdd(p)
  \/ createUpdate(p)
  \/ createAndAddIdGet(p)
  \/ deleteAndRemoveIdDelete(p)
  \/ Fault(p)
  \/ Return(p)

NextCascade == \E p \in {"p1"} : (AllIdle /\ BeginCascade(p)) \/ StepCascade(p)

SpecCascade == Init /\ [][NextCascade]_vars

(***************************************************************************)
(* FirestoreDataSource.updateOneRelation (ToOneRelation)                   *)
(***************************************************************************)
\* filter(data, where) for a where of {field: {eq: value}} conditions
matches(record, where) ==
  \A f \in DOMAIN where : f \in DOMAIN record /\ record[f] = where[f].eq

\* snapshot.forEach(doc => data.push(doc.data())): the documents of the
\* collection from key on, in the order of their keys
RECURSIVE snapToArray(_, _, _)
snapToArray(d, collection, key) ==
  IF key > MaxKeys THEN <<>>
  ELSE IF d[<<collection, key>>].exists
       THEN <<d[<<collection, key>>].data>> \o snapToArray(d, collection, key + 1)
       ELSE snapToArray(d, collection, key + 1)

\* first(filter(data, where)), as a list of at most one record
firstMatch(data, where) ==
  LET found == SelectSeq(data, LAMBDA record : matches(record, where))
  IN  IF found = <<>> THEN <<>> ELSE <<Head(found)>>

\* ref.update({[field]: FieldValue.delete()})
deleteField(d, path, field) ==
  [d EXCEPT ![path] =
     Doc([f \in DOMAIN d[path].data \ {field} |-> d[path].data[f]])]

updateOneRelation(p, id, foreignKey, foreignId) ==
  Enter(p, [Call("updateOneRelation", "one.get") EXCEPT
              !.collection = modelA.collection, !.ref = id,
              !.where = [f \in {foreignKey} |-> [eq |-> foreignId]],
              !.payload = [f \in {foreignKey} |-> foreignId]])

\* const snapshot = await ref.get(); oldOwner = first(filter(data, ...));
\* if (oldOwner) ... else straight to the new owner
oneRelationGet(p) ==
  /\ At(p, "one.get")
  /\ LET oldOwner == firstMatch(snapToArray(db, pc[p].collection, 1), pc[p].where)
     IN  pc' = [pc EXCEPT ![p].records = oldOwner,
                          ![p].step = IF oldOwner = <<>> THEN "one.new" ELSE "one.old"]
  /\ UNCHANGED <<db, nextId, calls>>

\* an update that leaves the old owner its field
oneRelationOldKeep(p) ==
  /\ At(p, "one.old")
  /\ Goto(p, "one.new")
  /\ UNCHANGED <<db, nextId, calls>>

\* await oldRef.update({[foreignKey]: FieldValue.delete()}) on the document
\* `${collection}/${oldOwner.id}`; an oldOwner without id names no document
oneRelationOld(p) ==
  /\ At(p, "one.old")
  /\ LET oldOwner == pc[p].records[1]
     IN  IF "id" \in DOMAIN oldOwner /\ oldOwner.id \in Keys
            /\ db[<<pc[p].collection, oldOwner.id>>].exists
         THEN /\ db' = deleteField(db, <<pc[p].collection, oldOwner.id>>,
                                   CHOOSE f \in DOMAIN pc[p].where : TRUE)
              /\ Goto(p, "one.new")
         ELSE /\ Reject(p)
              /\ UNCHANGED db
  /\ UNCHANGED <<nextId, calls>>

\* await newRef.update({[foreignKey]: foreignId})
oneRelationNew(p) ==
  /\ At(p, "one.new")
  /\ LET path == <<pc[p].collection, pc[p].ref>>
     IN  IF db[path].exists
         THEN /\ db' = updateDoc(db, path, pc[p].payload)
              /\ Finish(p, Undefined)
         ELSE /\ Reject(p)
              /\ UNCHANGED db
  /\ UNCHANGED <<nextId, calls>>

OneRelationKeys == {"owner", "mate"}
OneRelationIds == {"f", "g"}

\* every key of the collection holds a created record, none with a foreign key
InitOneRelation ==
  /\ Populated([c \in {modelA.collection} |-> MaxKeys], RelationMutations)
  /\ pc = [p \in Procs |-> Idle]
  /\ calls = 0

BeginOneRelation(p) ==
  \/ \E id \in Keys, foreignKey \in OneRelationKeys, foreignId \in OneRelationIds :
        updateOneRelation(p, id, foreignKey, foreignId)
  \/ \E id \in Keys : delete(p, modelA.collection, whereId(id))

StepOneRelation(p) ==
  \/ oneRelationGet(p)
  \/ oneRelationOld(p)
  \/ oneRelationNew(p)
  \/ deleteDelete(p)
  \/ Fault(p)
  \/ Return(p)

\* one caller, one call at a time
NextOneRelation ==
  \E p \in {"p1"} : (AllIdle /\ BeginOneRelation(p)) \/ StepOneRelation(p)

SpecOneRelation == InitOneRelation /\ [][NextOneRelation]_vars

(***************************************************************************)
(* updateOneRelation, callers running concurrently                         *)
(***************************************************************************)
BeginOneRelationRace(p) ==
  \E id \in Keys, foreignKey \in OneRelationKeys, foreignId \in OneRelationIds :
    updateOneRelation(p, id, foreignKey, foreignId)

StepOneRelationRace(p) ==
  \/ oneRelationGet(p)
  \/ oneRelationOld(p)
  \/ oneRelationNew(p)
  \/ Return(p)

\* every caller moves at its own pace: the awaits of the calls interleave
NextOneRelationRace ==
  \E p \in Procs : BeginOneRelationRace(p) \/ StepOneRelationRace(p)

SpecOneRelationRace == InitOneRelation /\ [][NextOneRelationRace]_vars

(***************************************************************************)
(* addId and removeId, callers running concurrently                        *)
(***************************************************************************)
\* every key of both collections holds a created record, no join record yet
InitRace ==
  /\ Populated([c \in {modelA.collection, modelB.collection} |-> MaxKeys],
               RelationMutations)
  /\ pc = [p \in Procs |-> Idle]
  /\ calls = 0

StepAddRace(p) ==
  \/ addIdFirst(p)
  \/ addIdSecond(p)
  \/ Return(p)

\* addId calls only, their writes interleaved in any way
NextAddRace ==
  \E p \in Procs : (\E a \in Keys, b \in Keys : addId(p, a, b)) \/ StepAddRace(p)

SpecAddRace == InitRace /\ [][NextAddRace]_vars

BeginRace(p) ==
  \/ \E a \in Keys, b \in Keys : addId(p, a, b)
  \/ \E a \in Keys, b \in Keys : removeId(p, a, b)

StepRace(p) ==
  \/ addIdFirst(p)
  \/ addIdSecond(p)
  \/ removeIdFirst(p)
  \/ removeIdSecond(p)
  \/ Return(p)

\* addId and removeId calls, their writes interleaved in any way
NextRace == \E p \in Procs : BeginRace(p) \/ StepRace(p)

SpecRace == InitRace /\ [][NextRace]_vars

(***************************************************************************)
(* One data source, one call at a time: create, update, delete             *)
(***************************************************************************)
\* mutations: scalar data plus array operations on a list field
CrudMutations ==
  { [data |-> data, operations |-> operations] :
      data \in {EmptyData, [name |-> "m"]},
      operations \in { <<>>,
                       <<[fieldName |-> "tags", operator |-> "set", value |-> <<"u">>]>>,
                       <<[fieldName |-> "tags", operator |-> "add", value |-> <<"u">>]>> } }

\* where clauses: id only, id with another field, another field only, empty
CrudWheres ==
  { whereId(id) : id \in Keys }
    \cup { [id |-> [eq |-> id], name |-> [eq |-> "n"]] : id \in Keys }
    \cup { [name |-> [eq |-> "n"]], EmptyData }

\* the records earlier create calls left
CrudSeedMutations ==
  { [data |-> [name |-> "n"],
     operations |-> <<[fieldName |-> "tags", operator |-> "set", value |-> <<"t">>]>>] }

InitCrud ==
  /\ Populated([c \in {modelA.collection} |-> MaxKeys - 1], CrudSeedMutations)
  /\ pc = [p \in Procs |-> Idle]
  /\ calls = 0

BeginCrud(p) ==
  \/ \E m \in CrudMutations : create(p, modelA.collection, m)
  \/ \E w \in CrudWheres, m \in CrudMutations : update(p, modelA.collection, w, m)
  \/ \E w \in CrudWheres : delete(p, modelA.collection, w)

StepCrud(p) ==
  \/ createAdd(p)
  \/ createUpdate(p)
  \/ createGet(p)
  \/ updateUpdate(p)
  \/ deleteDelete(p)
  \/ Fault(p)
  \/ Return(p)

NextCrud == \E p \in {"p1"} : (AllIdle /\ BeginCrud(p)) \/ StepCrud(p)

SpecCrud == InitCrud /\ [][NextCrud]_vars

(***************************************************************************)
(* transformMutation on its own                                            *)
(***************************************************************************)
ArrayOperations ==
  [fieldName : {"tags", "refs"}, operator : {"set", "add", "remove"},
   value : {<<"t">>, <<"u">>}]

RECURSIVE SeqsUpTo(_, _)
SeqsUpTo(S, n) ==
  IF n = 0 THEN {<<>>}
  ELSE SeqsUpTo(S, n - 1)
         \cup { Append(q, x) : q \in { r \in SeqsUpTo(S, n - 1) : Len(r) = n - 1 }, x \in S }

\* getData() holds no field that an array operation stands for
Mutations ==
  { [data |-> data, operations |-> operations] :
      data \in {EmptyData, [name |-> "n"], [name |-> "m"]},
      operations \in SeqsUpTo(ArrayOperations, MaxOperations) }

\* const payload = this.transformMutation(mutation), as create and update begin
transform(p, mutation) ==
  Enter(p, [Call("transformMutation", "done") EXCEPT
              !.status = "ok", !.mutation = mutation,
              !.payload = transformMutation(mutation)])

InitMutation ==
  /\ db = EmptyDb
  /\ nextId = [c \in Collections |-> 0]
  /\ pc = [p \in Procs |-> Idle]
  /\ calls = 0

NextMutation ==
  \E p \in {"p1"} :
    \/ \E m \in Mutations : AllIdle /\ transform(p, m)
    \/ Return(p)

SpecMutation == InitMutation /\ [][NextMutation]_vars

(***************************************************************************)
(* Embedded relation: addEmbedIds / removeEmbedIds and the update that     *)
(* applies their patch.  Field names and ids are strings spelled out as    *)
(* sequences of characters here, so that `${foreignKey}.${id}` is a        *)
(* concatenation and the update splits it again into a field path.         *)
(***************************************************************************)
\* stored values: true, a string, a nested map; and the deletion sentinel
JsTrue == [bool |-> TRUE]

JsString(v) == [str |-> v]

JsMap(entries) == [map |-> entries]

FieldValueDelete == [sentinel |-> "delete"]

isMap(v) == DOMAIN v = {"map"}

\* reduce(ids, (map, id) => { map[`${foreignKey}.${id}`] = true; return map; }, map)
RECURSIVE addEmbedIdsReduce(_, _, _)
addEmbedIdsReduce(map, foreignKey, ids) ==
  IF ids = <<>> THEN map
  ELSE addEmbedIdsReduce(
         Assign(map, [k \in {foreignKey \o <<".">> \o Head(ids)} |-> JsTrue]),
         foreignKey, Tail(ids))

addEmbedIds(foreignKey, ids) == addEmbedIdsReduce(EmptyData, foreignKey, ids)

\* reduce(ids, (map, id) => { map[`${foreignKey}.${id}`] = FieldValue.delete(); ... }, map)
RECURSIVE removeEmbedIdsReduce(_, _, _)
removeEmbedIdsReduce(map, foreignKey, ids) ==
  IF ids = <<>> THEN map
  ELSE removeEmbedIdsReduce(
         Assign(map, [k \in {foreignKey \o <<".">> \o Head(ids)} |-> FieldValueDelete]),
         foreignKey, Tail(ids))

removeEmbedIds(foreignKey, ids) == removeEmbedIdsReduce(EmptyData, foreignKey, ids)

\* a dotted key of ref.update(...) is a field path: its segments between dots
RECURSIVE fieldPath(_)
fieldPath(key) ==
  IF \A i \in DOMAIN key : key[i] # "."
  THEN <<key>>
  ELSE LET dot == CHOOSE i \in DOMAIN key :
                    key[i] = "." /\ \A j \in 1..(i - 1) : key[j] # "."
       IN  <<SubSeq(key, 1, dot - 1)>> \o fieldPath(SubSeq(key, dot + 1, Len(key)))

\* ref.update sets the value at a field path, creating the maps on the way
RECURSIVE setAt(_, _, _)
setAt(entries, segments, value) ==
  LET field == Head(segments)
      child == IF field \in DOMAIN entries /\ isMap(entries[field])
               THEN entries[field].map ELSE EmptyData
  IN  IF Len(segments) = 1
      THEN Assign(entries, [k \in {field} |-> value])
      ELSE Assign(entries, [k \in {field} |-> JsMap(setAt(child, Tail(segments), value))])

\* ref.update with FieldValue.delete() removes the key at a field path
RECURSIVE deleteAt(_, _)
deleteAt(entries, segments) ==
  LET field == Head(segments)
  IN  IF Len(segments) = 1
      THEN [k \in DOMAIN entries \ {field} |-> entries[k]]
      ELSE IF field \in DOMAIN entries /\ isMap(entries[field])
           THEN Assign(entries, [k \in {field} |-> JsMap(deleteAt(entries[field].map, Tail(segments)))])
           ELSE entries

\* ref.update(patch): every key of the patch applied at its field path
RECURSIVE updateFields(_, _)
updateFields(entries, patch) ==
  IF DOMAIN patch = {} THEN entries
  ELSE LET key == CHOOSE k \in DOMAIN patch : TRUE
           rest == [k \in DOMAIN patch \ {key} |-> patch[k]]
           applied == IF patch[key] = FieldValueDelete
                      THEN deleteAt(entries, fieldPath(key))
                      ELSE setAt(entries, fieldPath(key), patch[key])
       IN  updateFields(applied, rest)

\* update(where, mutation) of a mutation whose data is the patch: an empty
\* payload returns at once
embedCall(op, foreignKey, ids, id, patch) ==
  LET call == [Call(op, "update.paths") EXCEPT
                 !.collection = modelA.collection, !.where = whereId(id), !.ref = id,
                 !.foreignKey = foreignKey, !.ids = ids,
                 !.mutation = [data |-> patch, operations |-> <<>>],
                 !.payload = transformMutation([data |-> patch, operations |-> <<>>])]
  IN  IF isEmpty(call.payload) THEN [call EXCEPT !.step = "done", !.status = "ok"] ELSE call

addEmbed(p, foreignKey, ids, id) ==
  Enter(p, embedCall("addEmbedIds", foreignKey, ids, id, addEmbedIds(foreignKey, ids)))

removeEmbed(p, foreignKey, ids, id) ==
  Enter(p, embedCall("removeEmbedIds", foreignKey, ids, id, removeEmbedIds(foreignKey, ids)))

\* await ref.update(payload), the payload's keys being field paths
updatePaths(p) ==
  /\ At(p, "update.paths")
  /\ LET path == <<pc[p].collection, pc[p].ref>>
     IN  IF db[path].exists
         THEN /\ db' = [db EXCEPT ![path] = Doc(updateFields(db[path].data, pc[p].payload))]
              /\ Finish(p, Undefined)
         ELSE /\ Reject(p)
              /\ UNCHANGED db
  /\ UNCHANGED <<nextId, calls>>

\* the value `null`
JsNull == [null |-> TRUE]

\* the value a record holds at a field path, undefined when it holds none
RECURSIVE valueAt(_, _)
valueAt(entries, segments) ==
  LET field == Head(segments)
  IN  IF field \notin DOMAIN entries THEN Undefined
      ELSE IF Len(segments) = 1 THEN Val(entries[field])
      ELSE IF isMap(entries[field]) THEN valueAt(entries[field].map, Tail(segments))
      ELSE Undefined

\* snapToArray of collection.where(foreignKey, '==', foreignId).get(): the
\* documents, from key on, whose field foreignKey is the string foreignId
RECURSIVE whereEquals(_, _, _, _, _)
whereEquals(d, collection, foreignKey, foreignId, key) ==
  IF key > MaxKeys THEN <<>>
  ELSE LET doc == d[<<collection, key>>]
           hit == /\ doc.exists
                  /\ valueAt(doc.data, fieldPath(foreignKey)) = Val(JsString(foreignId))
       IN  (IF hit THEN <<doc.data>> ELSE <<>>)
             \o whereEquals(d, collection, foreignKey, foreignId, key + 1)

findOneByEmbedId(p, foreignKey, foreignId) ==
  Enter(p, [Call("findOneByEmbedId", "embed.get") EXCEPT
              !.collection = modelA.collection, !.foreignKey = foreignKey,
              !.ids = <<foreignId>>])

findManyByEmbedId(p, foreignKey, foreignId) ==
  Enter(p, [Call("findManyByEmbedId", "embed.get") EXCEPT
              !.collection = modelA.collection, !.foreignKey = foreignKey,
              !.ids = <<foreignId>>])

\* const snapshot = await ref.get();
\* return snapshot.empty ? null : first(snapToArray(snapshot)) / snapToArray(snapshot)
embedGet(p) ==
  /\ At(p, "embed.get")
  /\ LET data == whereEquals(db, pc[p].collection, pc[p].foreignKey, pc[p].ids[1], 1)
     IN  Finish(p, IF data = <<>> THEN JsNull
                   ELSE IF pc[p].op = "findOneByEmbedId" THEN Val(Head(data))
                   ELSE Val(data))
  /\ UNCHANGED <<db, nextId, calls>>

ForeignKeys == { <<"t">>, <<"r", "s">> }

\* ids: one character, two characters, and one with a dot in it
EmbedIds == { <<"x">>, <<"y">>, <<"x", "y">>, <<"z", ".", "w">> }

\* the owning record: a scalar field, with or without an embedded map that
\* already holds another id
EmbedSeeds ==
  { [k \in {<<"n">>} |-> JsString(<<"v">>)],
    [k \in {<<"n">>, <<"t">>} |->
       IF k = <<"n">> THEN JsString(<<"v">>) ELSE JsMap([z \in {<<"z">>} |-> JsTrue])] }

\* the fields and values the lookups are asked for: the embedded maps and
\* their ids, and the record's scalar field and its value
LookupKeys == ForeignKeys \cup { <<"n">> }

LookupIds == EmbedIds \cup { <<"v">> }

InitEmbed ==
  /\ \E seed \in EmbedSeeds :
       db = [path \in Paths |->
               IF path = <<modelA.collection, 1>> THEN Doc(seed) ELSE NoDoc]
  /\ nextId = [c \in Collections |-> IF c = modelA.collection THEN 1 ELSE 0]
  /\ pc = [p \in Procs |-> Idle]
  /\ calls = 0

NextEmbed ==
  \E p \in {"p1"} :
    \/ \E fk \in ForeignKeys, ids \in SeqsUpTo(EmbedIds, MaxEmbedIds) :
         AllIdle /\ addEmbed(p, fk, ids, 1)
    \/ \E fk \in ForeignKeys, ids \in SeqsUpTo(EmbedIds, MaxEmbedIds) :
         AllIdle /\ removeEmbed(p, fk, ids, 1)
    \/ \E fk \in LookupKeys, id \in LookupIds :
         AllIdle /\ findOneByEmbedId(p, fk, id)
    \/ \E fk \in LookupKeys, id \in LookupIds :
         AllIdle /\ findManyByEmbedId(p, fk, id)
    \/ updatePaths(p)
    \/ embedGet(p)
    \/ Fault(p)
    \/ Return(p)

SpecEmbed == InitEmbed /\ [][NextEmbed]_vars

(***************************************************************************)
(* Properties of the relation                                              *)
(***************************************************************************)
TableAB == "_A_B"

TableBA == "_B_A"

\* the id array stored in a join record, empty when there is none
idsAt(d, table, key) ==
  IF d[<<table, key>>].exists /\ "targetSideIds" \in DOMAIN d[<<table, key>>].data
  THEN d[<<table, key>>].data.targetSideIds
  ELSE <<>>

\* a list of records holds one whose id field is id
Contains(records, id) ==
  \E i \in DOMAIN records : "id" \in DOMAIN records[i] /\ records[i].id = id

\* the collection holds, under key id, a record whose id field is id
hasRecord(d, collection, id) ==
  /\ d[<<collection, id>>].exists
  /\ "id" \in DOMAIN d[<<collection, id>>].data
  /\ d[<<collection, id>>].data.id = id

Completed(p, op) == pc[p].op = op /\ pc[p].status = "ok"

\* C1: once addId({a, b}) has completed without a fault, for existing records
\* a and b, joinModelA(b) contains a record with id a and joinModelB(a)
\* contains a record with id b, whatever the two join records held before.
C1_AddIdVisibleBothWays ==
  \A p \in Procs :
    (/\ Completed(p, "addId")
     /\ hasRecord(db, modelA.collection, pc[p].a)
     /\ hasRecord(db, modelB.collection, pc[p].b))
    => /\ Contains(joinModelAOn(db, pc[p].b), pc[p].a)
       /\ Contains(joinModelBOn(db, pc[p].a), pc[p].b)

\* an addId between existing records completed, neither join record existed
C1_Witness ==
  \E p \in Procs :
    /\ Completed(p, "addId")
    /\ hasRecord(db, modelA.collection, pc[p].a)
    /\ hasRecord(db, modelB.collection, pc[p].b)
    /\ ~pc[p].pre[<<TableAB, pc[p].a>>].exists
    /\ ~pc[p].pre[<<TableBA, pc[p].b>>].exists

\* C2: once removeId({a, b}) has completed without a fault (after any number
\* of addId of the pair), joinModelA(b) contains no record with id a and
\* joinModelB(a) contains no record with id b.
C2_RemoveIdInvisibleBothWays ==
  \A p \in Procs :
    Completed(p, "removeId")
    => /\ ~Contains(joinModelAOn(db, pc[p].b), pc[p].a)
       /\ ~Contains(joinModelBOn(db, pc[p].a), pc[p].b)

\* a removeId completed on a pair that was linked and visible in both directions
C2_Witness ==
  \E p \in Procs :
    /\ Completed(p, "removeId")
    /\ Contains(joinModelAOn(pc[p].pre, pc[p].b), pc[p].a)
    /\ Contains(joinModelBOn(pc[p].pre, pc[p].a), pc[p].b)

\* the records, in order, of the ids that name a document of the collection
Resolved(d, collection, ids) ==
  LET found == SelectSeq(ids, LAMBDA id : d[<<collection, id>>].exists)
  IN  [i \in DOMAIN found |-> d[<<collection, found[i]>>].data]

\* C3: a join that completes returns exactly the records of the ids of the
\* join array that resolve on the target side, in join-array order, with no
\* placeholder for a dangling id; no join record or no ids gives the empty list.
C3_JoinDropsDanglingIds ==
  \A p \in Procs :
    /\ Completed(p, "joinModelA")
       => pc[p].ret = Resolved(pc[p].pre, modelA.collection,
                               idsAt(pc[p].pre, TableBA, pc[p].b))
    /\ Completed(p, "joinModelB")
       => pc[p].ret = Resolved(pc[p].pre, modelB.collection,
                               idsAt(pc[p].pre, TableAB, pc[p].a))

\* a join completed over an array whose first id dangles and whose second resolves
C3_Witness ==
  \E p \in Procs :
    /\ Completed(p, "joinModelB")
    /\ LET ids == idsAt(pc[p].pre, TableAB, pc[p].a)
       IN  /\ Len(ids) >= 2
           /\ ~db[<<modelB.collection, ids[1]>>].exists
           /\ db[<<modelB.collection, ids[2]>>].exists
    /\ Len(pc[p].ret) = 1

Faulted(p, op, step) ==
  pc[p].op = op /\ pc[p].status = "fault" /\ pc[p].faultAt = step

\* C4: an addId that faults at its second write leaves the first write in
\* place (b in the array joinModelB(a) reads) and the array joinModelA(b)
\* reads as it was; an addId that faults at its first write changes nothing.
C4_AddIdFaultLeavesOneDirection ==
  \A p \in Procs :
    /\ Faulted(p, "addId", "addId.second")
       => /\ pc[p].b \in Range(idsAt(db, TableAB, pc[p].a))
          /\ \A path \in Paths \ {<<TableAB, pc[p].a>>} : db[path] = pc[p].pre[path]
    /\ Faulted(p, "addId", "addId.first") => db = pc[p].pre

\* an addId faulted at the second write: the link is new and one-directional
C4_Witness ==
  \E p \in Procs :
    /\ Faulted(p, "addId", "addId.second")
    /\ pc[p].b \notin Range(idsAt(pc[p].pre, TableAB, pc[p].a))
    /\ pc[p].b \in Range(idsAt(db, TableAB, pc[p].a))
    /\ pc[p].a \notin Range(idsAt(db, TableBA, pc[p].b))

\* the array new is the array old with id added at most once, old ids kept
Gains(old, new, id) ==
  /\ Len(new) >= Len(old)
  /\ SubSeq(new, 1, Len(old)) = old
  /\ Range(new) = Range(old) \cup {id}
  /\ Len(new) = Cardinality(Range(old) \cup {id}) - Cardinality(Range(old)) + Len(old)

\* C9: a completed addId({a, b}) changes no document but the join records
\* _A_B/a, whose array gains b, and _B_A/b, whose array gains a, keeping the
\* ids already there; a completed removeId({a, b}) changes no other document.
C9_LinkWritesTouchTwoJoinRecords ==
  \A p \in Procs :
    /\ (Completed(p, "addId") \/ Completed(p, "removeId"))
       => \A path \in Paths \ {<<TableAB, pc[p].a>>, <<TableBA, pc[p].b>>} :
            db[path] = pc[p].pre[path]
    /\ Completed(p, "addId")
       => /\ Gains(idsAt(pc[p].pre, TableAB, pc[p].a), idsAt(db, TableAB, pc[p].a), pc[p].b)
          /\ Gains(idsAt(pc[p].pre, TableBA, pc[p].b), idsAt(db, TableBA, pc[p].b), pc[p].a)

\* an addId completed on a join record that already held another id, while
\* another join record of the same table existed
C9_Witness ==
  \E p \in Procs :
    /\ Completed(p, "addId")
    /\ idsAt(pc[p].pre, TableAB, pc[p].a) # <<>>
    /\ pc[p].b \notin Range(idsAt(pc[p].pre, TableAB, pc[p].a))
    /\ \E other \in Keys \ {pc[p].b} : db[<<TableBA, other>>].exists

(***************************************************************************)
(* Properties of create, update and delete                                 *)
(***************************************************************************)
\* C5: an update whose transformed payload is empty completes without a
\* fault and leaves every document as it was, whatever its where clause holds;
\* so does, in particular, an update whose data is empty and whose array
\* operations all use an operator other than set.
C5_EmptyUpdateWritesNothing ==
  \A p \in Procs :
    (/\ pc[p].op = "update"
     /\ \/ pc[p].payload = EmptyData
        \/ /\ pc[p].mutation.data = EmptyData
           /\ \A i \in DOMAIN pc[p].mutation.operations :
                pc[p].mutation.operations[i].operator # "set")
    => /\ pc[p].status = "ok"
       /\ pc[p].step = "done"
       /\ db = pc[p].pre

\* an update with an `add` operation only, on a where clause without id
C5_Witness ==
  \E p \in Procs :
    /\ pc[p].op = "update"
    /\ pc[p].status = "ok"
    /\ pc[p].mutation.data = EmptyData
    /\ pc[p].mutation.operations # <<>>
    /\ "id" \notin DOMAIN pc[p].where
    /\ pc[p].where # EmptyData

\* the where clause holds an id equality clause and nothing else
idOnly(where) == DOMAIN where = {"id"} /\ DOMAIN where["id"] = {"eq"}

\* C7: a completed update with an id-only where {id: {eq: i}} and a non-empty
\* payload sets the payload's fields on document i, keeps its other fields
\* and changes no other document; a completed delete with an id-only where
\* removes document i and changes no other document.
C7_IdOnlyWhereUpdatesAndDeletesOneDocument ==
  \A p \in Procs :
    LET i == pc[p].where["id"]["eq"]
        path == <<pc[p].collection, i>>
    IN  /\ (Completed(p, "update") /\ idOnly(pc[p].where) /\ pc[p].payload # EmptyData)
           => /\ pc[p].pre[path].exists /\ db[path].exists
              /\ DOMAIN db[path].data = DOMAIN pc[p].pre[path].data \cup DOMAIN pc[p].payload
              /\ \A f \in DOMAIN db[path].data :
                   db[path].data[f] = IF f \in DOMAIN pc[p].payload
                                      THEN pc[p].payload[f]
                                      ELSE pc[p].pre[path].data[f]
              /\ \A other \in Paths \ {path} : db[other] = pc[p].pre[other]
        /\ (Completed(p, "delete") /\ idOnly(pc[p].where))
           => /\ ~db[path].exists
              /\ \A other \in Paths \ {path} : db[other] = pc[p].pre[other]

\* an id-only update changed one field of a document and kept another one,
\* while another document existed
C7_Witness ==
  \E p \in Procs :
    /\ Completed(p, "update")
    /\ idOnly(pc[p].where)
    /\ LET path == <<pc[p].collection, pc[p].where["id"]["eq"]>>
       IN  /\ db[path] # pc[p].pre[path]
           /\ \E f \in DOMAIN db[path].data \ {"id"} : f \notin DOMAIN pc[p].payload
           /\ \E other \in Paths \ {path} : db[other].exists

\* an id-only delete removed a document while another document existed
C7_WitnessDelete ==
  \E p \in Procs :
    /\ Completed(p, "delete")
    /\ idOnly(pc[p].where)
    /\ pc[p].pre[<<pc[p].collection, pc[p].where["id"]["eq"]>>].exists
    /\ \E other \in Paths : db[other].exists

\* C8: when create returns, the store holds exactly one new document, whose
\* id field is its key and whose other fields are the payload's; the returned
\* record is that document and no earlier document has changed.  The insert
\* precedes the id back-fill, which precedes the read of the returned record.
C8_CreateBackfillsIdBeforeReturning ==
  \A p \in Procs :
    LET path == <<pc[p].collection, pc[p].ref>>
    IN  /\ Completed(p, "create")
           => /\ { q \in Paths : db[q].exists /\ ~pc[p].pre[q].exists } = {path}
              /\ db[path].data = Assign(pc[p].payload, [id |-> pc[p].ref])
              /\ pc[p].ret = Val(db[path].data)
              /\ \A q \in Paths \ {path} : db[q] = pc[p].pre[q]
        /\ (pc[p].op = "create" /\ At(p, "create.add")) => db = pc[p].pre
        /\ (pc[p].op = "create" /\ At(p, "create.update"))
           => /\ ~pc[p].pre[path].exists
              /\ db[path] = Doc(pc[p].payload)
        /\ (pc[p].op = "create" /\ At(p, "create.get")) => hasRecord(db, pc[p].collection, pc[p].ref)

\* a create with a set operation returned while an earlier document existed
C8_Witness ==
  \E p \in Procs :
    /\ Completed(p, "create")
    /\ "tags" \in DOMAIN pc[p].ret.val
    /\ pc[p].ret.val.id = pc[p].ref
    /\ \E q \in Paths \ {<<pc[p].collection, pc[p].ref>>} : pc[p].pre[q].exists

(***************************************************************************)
(* Properties of transformMutation                                         *)
(***************************************************************************)
\* the positions of the set operations on field f
setsOf(operations, f) ==
  { i \in DOMAIN operations :
      operations[i].operator = "set" /\ operations[i].fieldName = f }

Last(S) == CHOOSE i \in S : \A j \in S : j <= i

\* C6: the payload of a mutation is getData() with, for every field that has
\* a set operation, the value of the last set operation on it; an operation
\* with another operator (add, remove) adds, changes and removes no key.
C6_PayloadIsDataWithSetOperations ==
  \A p \in Procs :
    pc[p].op \in {"transformMutation", "create", "update"}
    => LET data == pc[p].mutation.data
           operations == pc[p].mutation.operations
           payload == pc[p].payload
       IN  /\ DOMAIN payload =
                DOMAIN data \cup { f \in {"tags", "refs"} : setsOf(operations, f) # {} }
           /\ \A f \in DOMAIN payload :
                payload[f] = IF setsOf(operations, f) # {}
                             THEN operations[Last(setsOf(operations, f))].value
                             ELSE data[f]

\* a mutation with data, an add operation on one field and a set on another
C6_Witness ==
  \E p \in Procs :
    /\ pc[p].op = "transformMutation"
    /\ pc[p].mutation.data # EmptyData
    /\ Len(pc[p].mutation.operations) = 2
    /\ pc[p].mutation.operations[1].operator = "add"
    /\ pc[p].mutation.operations[1].fieldName = "refs"
    /\ pc[p].mutation.operations[2].operator = "set"
    /\ pc[p].mutation.operations[2].fieldName = "tags"
    /\ DOMAIN pc[p].payload = {"name", "tags"}

(***************************************************************************)
(* Properties of the embedded relation                                     *)
(***************************************************************************)
\* the entries of the embedded map of a record, none when it has no such map
embedded(snap, foreignKey) ==
  IF snap.exists /\ foreignKey \in DOMAIN snap.data /\ isMap(snap.data[foreignKey])
  THEN snap.data[foreignKey].map
  ELSE EmptyData

\* every field of the records but foreignKey is the same
sameOtherFields(old, new, foreignKey) ==
  /\ DOMAIN new.data \ {foreignKey} = DOMAIN old.data \ {foreignKey}
  /\ \A f \in DOMAIN new.data \ {foreignKey} : new.data[f] = old.data[f]

\* C10: the patch of addEmbedIds(fk, ids) has exactly the keys fk.id, id in
\* ids, each with value true; the patch of removeEmbedIds(fk, ids) has the
\* same keys, each with the deletion marker; no ids gives the empty patch.
\* Applied to a record, the patch adds (removes) the keys in ids of the map
\* fk and leaves the map's other keys and the record's other fields alone.
C10_EmbedPatchTouchesOnlyItsIds ==
  \A p \in Procs :
    pc[p].op \in {"addEmbedIds", "removeEmbedIds"}
    => LET fk == pc[p].foreignKey
           ids == Range(pc[p].ids)
           patch == pc[p].mutation.data
           path == <<pc[p].collection, pc[p].ref>>
           old == embedded(pc[p].pre[path], fk)
           new == embedded(db[path], fk)
       IN  /\ DOMAIN patch = { fk \o <<".">> \o id : id \in ids }
           /\ \A k \in DOMAIN patch :
                patch[k] = IF pc[p].op = "addEmbedIds" THEN JsTrue ELSE FieldValueDelete
           /\ (pc[p].ids = <<>>) => (patch = EmptyData /\ db = pc[p].pre)
           /\ pc[p].status = "ok"
              => /\ sameOtherFields(pc[p].pre[path], db[path], fk)
                 /\ \A other \in Paths \ {path} : db[other] = pc[p].pre[other]
                 /\ DOMAIN new = IF pc[p].op = "addEmbedIds"
                                 THEN DOMAIN old \cup ids ELSE DOMAIN old \ ids
                 /\ \A k \in DOMAIN new : new[k] = IF k \in ids THEN JsTrue ELSE old[k]

\* two ids were added to a map that held another id on a record with another field
C10_Witness ==
  \E p \in Procs :
    /\ Completed(p, "addEmbedIds")
    /\ Cardinality(Range(pc[p].ids)) = 2
    /\ LET path == <<pc[p].collection, pc[p].ref>>
       IN  /\ embedded(pc[p].pre[path], pc[p].foreignKey) # EmptyData
           /\ Range(pc[p].ids) \cap DOMAIN embedded(pc[p].pre[path], pc[p].foreignKey) = {}
           /\ Range(pc[p].ids) \subseteq DOMAIN embedded(db[path], pc[p].foreignKey)
           /\ DOMAIN db[path].data \ {pc[p].foreignKey} # {}

\* one of two ids of a map was removed
C10_WitnessRemove ==
  \E p \in Procs :
    /\ Completed(p, "removeEmbedIds")
    /\ LET path == <<pc[p].collection, pc[p].ref>>
           old == embedded(pc[p].pre[path], pc[p].foreignKey)
           new == embedded(db[path], pc[p].foreignKey)
       IN  /\ Range(pc[p].ids) \cap DOMAIN old # {}
           /\ new # EmptyData
           /\ DOMAIN new # DOMAIN old

\* the lookup call of p returned the record data
returned(p, data) ==
  /\ pc[p].ret # JsNull
  /\ IF pc[p].op = "findOneByEmbedId"
     THEN pc[p].ret.val = data
     ELSE data \in Range(pc[p].ret.val)

\* C11: the embedded lookups go by map-key presence: a completed
\* findOneByEmbedId(fk, x) / findManyByEmbedId(fk, x) returns the record whose
\* map fk holds the key x (as after addEmbedIds(fk, [x]) was applied to it),
\* and does not return a record whose map fk holds no key x (as after
\* removeEmbedIds(fk, [x])).
C11_LookupByMapKeyPresence ==
  \A p \in Procs :
    (/\ pc[p].op \in {"findOneByEmbedId", "findManyByEmbedId"}
     /\ pc[p].status = "ok"
     /\ pc[p].foreignKey \in ForeignKeys)
    => LET doc == pc[p].pre[<<pc[p].collection, 1>>]
       IN  returned(p, doc.data) <=> pc[p].ids[1] \in DOMAIN embedded(doc, pc[p].foreignKey)

(***************************************************************************)
(* Idempotence and commutativity of the join writes                        *)
(***************************************************************************)
JoinPaths == {TableAB, TableBA} \X (Keys \cup {UndefinedKey})

\* the set of ids of every join array
idSets(d) == [path \in JoinPaths |-> Range(idsAt(d, path[1], path[2]))]

linked(d, a, b) ==
  b \in Range(idsAt(d, TableAB, a)) /\ a \in Range(idsAt(d, TableBA, b))

unlinked(d, a, b) ==
  b \notin Range(idsAt(d, TableAB, a)) /\ a \notin Range(idsAt(d, TableBA, b))

\* C12: an addId of a pair that is linked already leaves the database as it
\* was, and no join array ever holds an id twice; a removeId of a pair that is
\* not linked (a second removeId, or a pair never linked) leaves every join
\* result as it was; and a completed addId followed by another addId leaves
\* join arrays with the same sets of ids as the two in the other order.
C12_JoinWritesIdempotentCommutative ==
  /\ \A path \in JoinPaths :
       LET ids == idsAt(db, path[1], path[2])
       IN  \A i, j \in DOMAIN ids : ids[i] = ids[j] => i = j
  /\ \A p \in Procs :
       /\ (Completed(p, "addId") /\ linked(pc[p].pre, pc[p].a, pc[p].b))
          => db = pc[p].pre
       /\ (Completed(p, "removeId") /\ unlinked(pc[p].pre, pc[p].a, pc[p].b))
          => \A k \in Keys : /\ joinModelAOn(db, k) = joinModelAOn(pc[p].pre, k)
                             /\ joinModelBOn(db, k) = joinModelBOn(pc[p].pre, k)
       /\ Completed(p, "addId")
          => \A a \in Keys, b \in Keys :
               idSets(addIdOn(db, a, b))
                 = idSets(addIdOn(addIdOn(pc[p].pre, a, b), pc[p].a, pc[p].b))

\* a second addId of a linked pair completed
C12_Witness ==
  \E p \in Procs :
    /\ Completed(p, "addId")
    /\ linked(pc[p].pre, pc[p].a, pc[p].b)
    /\ hasRecord(db, modelA.collection, pc[p].a)
    /\ hasRecord(db, modelB.collection, pc[p].b)

\* a removeId of a pair that was not linked completed while other links existed
C12_WitnessRemove ==
  \E p \in Procs :
    /\ Completed(p, "removeId")
    /\ unlinked(pc[p].pre, pc[p].a, pc[p].b)
    /\ \E k \in Keys : joinModelBOn(db, k) # <<>>

(***************************************************************************)
(* The cascades                                                            *)
(***************************************************************************)
CreateSteps == {"create.add", "create.update", "create.get"}

\* the join records are as they were when the call of p began
joinsUntouched(p) == \A path \in JoinPaths : db[path] = pc[p].pre[path]

\* C13: createAndAddIdForModelA creates the model-B record before either link
\* write and links the created record's id: once it has completed,
\* joinModelB(a) contains the new record and, when a exists, joinModelA(newId)
\* contains a; a fault during the create leaves every join record as it was.
\* createAndAddIdForModelB does the same with A and B exchanged.
C13_CreateCascadeLinksCreatedRecord ==
  \A p \in Procs :
    /\ pc[p].op \in {"createAndAddIdForModelA", "createAndAddIdForModelB"}
         /\ ~joinsUntouched(p)
       => /\ hasRecord(db, pc[p].collection, pc[p].ref)
          /\ ~pc[p].pre[<<pc[p].collection, pc[p].ref>>].exists
    /\ \A step \in CreateSteps :
         Faulted(p, "createAndAddIdForModelA", step)
           \/ Faulted(p, "createAndAddIdForModelB", step)
         => joinsUntouched(p)
    /\ Completed(p, "createAndAddIdForModelA")
       => /\ pc[p].b = pc[p].ref
          /\ hasRecord(db, modelB.collection, pc[p].ref)
          /\ ~pc[p].pre[<<modelB.collection, pc[p].ref>>].exists
          /\ Contains(joinModelBOn(db, pc[p].a), pc[p].ref)
          /\ hasRecord(db, modelA.collection, pc[p].a)
             => Contains(joinModelAOn(db, pc[p].ref), pc[p].a)
    /\ Completed(p, "createAndAddIdForModelB")
       => /\ pc[p].a = pc[p].ref
          /\ hasRecord(db, modelA.collection, pc[p].ref)
          /\ ~pc[p].pre[<<modelA.collection, pc[p].ref>>].exists
          /\ Contains(joinModelAOn(db, pc[p].b), pc[p].ref)
          /\ hasRecord(db, modelB.collection, pc[p].b)
             => Contains(joinModelBOn(db, pc[p].ref), pc[p].b)

\* a cascade create has completed for an existing record a whose id differs
\* from the created record's
C13_Witness ==
  \E p \in Procs :
    /\ Completed(p, "createAndAddIdForModelA")
    /\ hasRecord(db, modelA.collection, pc[p].a)
    /\ pc[p].a # pc[p].ref

C13_WitnessModelB ==
  \E p \in Procs :
    /\ Completed(p, "createAndAddIdForModelB")
    /\ hasRecord(db, modelB.collection, pc[p].b)
    /\ pc[p].b # pc[p].ref

C13_WitnessFault ==
  \E p \in Procs : Faulted(p, "createAndAddIdForModelA", "create.update")

\* C14: deleteAndRemoveIdFromModelA deletes record a before either
\* link-removal write; once it has completed, joinModelA(b') holds no record
\* with id a for every model-B id b', also where the join array of b' still
\* lists a; a fault at the delete leaves every join record as it was.
\* deleteAndRemoveIdFromModelB does the same for record b and joinModelB.
C14_DeleteCascadeHidesDeletedRecord ==
  \A p \in Procs :
    /\ pc[p].op \in {"deleteAndRemoveIdFromModelA", "deleteAndRemoveIdFromModelB"}
         /\ ~joinsUntouched(p)
       => ~db[<<pc[p].collection, pc[p].ref>>].exists
    /\ Faulted(p, "deleteAndRemoveIdFromModelA", "delete.delete")
         \/ Faulted(p, "deleteAndRemoveIdFromModelB", "delete.delete")
       => joinsUntouched(p)
    /\ Completed(p, "deleteAndRemoveIdFromModelA")
       => /\ pc[p].ref = pc[p].a
          /\ ~db[<<modelA.collection, pc[p].a>>].exists
          /\ \A b \in Keys : ~Contains(joinModelAOn(db, b), pc[p].a)
    /\ Completed(p, "deleteAndRemoveIdFromModelB")
       => /\ pc[p].ref = pc[p].b
          /\ ~db[<<modelB.collection, pc[p].b>>].exists
          /\ \A a \in Keys : ~Contains(joinModelBOn(db, a), pc[p].b)

\* a cascade delete of an existing record a has completed and the join
\* array of some b still lists a
C14_Witness ==
  \E p \in Procs :
    /\ Completed(p, "deleteAndRemoveIdFromModelA")
    /\ pc[p].pre[<<modelA.collection, pc[p].a>>].exists
    /\ \E b \in Keys : pc[p].a \in Range(idsAt(db, TableBA, b))

C14_WitnessModelB ==
  \E p \in Procs :
    /\ Completed(p, "deleteAndRemoveIdFromModelB")
    /\ pc[p].pre[<<modelB.collection, pc[p].b>>].exists
    /\ \E a \in Keys : pc[p].b \in Range(idsAt(db, TableAB, a))

\* C19: once deleteAndRemoveIdFromModelA({a, b}) has completed, joinModelB(a)
\* returns the empty list whatever model-B records were linked to a, and
\* joinModelA(b) is empty once deleteAndRemoveIdFromModelB({a, b}) has.
C19_NoOutgoingLinksAfterCascadeDelete ==
  \A p \in Procs :
    /\ Completed(p, "deleteAndRemoveIdFromModelA")
       => joinModelBOn(db, pc[p].a) = <<>>
    /\ Completed(p, "deleteAndRemoveIdFromModelB")
       => joinModelAOn(db, pc[p].b) = <<>>

(***************************************************************************)
(* The to-one relation                                                     *)
(***************************************************************************)
\* the keys of the documents of the collection whose field foreignKey is foreignId
owners(d, collection, where) ==
  { key \in Keys : d[<<collection, key>>].exists
                     /\ matches(d[<<collection, key>>].data, where) }

foreignKeyOf(p) == CHOOSE f \in DOMAIN pc[p].where : TRUE

\* C15: run one call at a time from a collection with at most one owner of
\* foreignId, a completed updateOneRelation(id, foreignKey, foreignId) leaves
\* exactly document id with the field; a previous owner other than id has lost
\* the field and nothing else, document id differs from before in that field
\* only, and every other document is as it was.
C15_UpdateOneRelationKeepsOneOwner ==
  \A p \in Procs :
    Completed(p, "updateOneRelation")
      /\ Cardinality(owners(pc[p].pre, pc[p].collection, pc[p].where)) <= 1
    => /\ owners(db, pc[p].collection, pc[p].where) = {pc[p].ref}
       /\ \A path \in Paths :
            LET before == pc[p].pre[path]
            IN  IF path = <<pc[p].collection, pc[p].ref>>
                THEN /\ before.exists
                     /\ db[path] = Doc(Assign(before.data, pc[p].payload))
                ELSE IF path[1] = pc[p].collection
                        /\ path[2] \in owners(pc[p].pre, pc[p].collection, pc[p].where)
                     THEN /\ db[path].exists
                          /\ foreignKeyOf(p) \notin DOMAIN db[path].data
                          /\ \A f \in DOMAIN before.data \ {foreignKeyOf(p)} :
                               f \in DOMAIN db[path].data
                               /\ db[path].data[f] = before.data[f]
                          /\ DOMAIN db[path].data \subseteq DOMAIN before.data
                     ELSE db[path] = before

\* an updateOneRelation has completed that took the link from another document
C15_Witness ==
  \E p \in Procs :
    /\ Completed(p, "updateOneRelation")
    /\ \E key \in Keys \ {pc[p].ref} :
         owners(pc[p].pre, pc[p].collection, pc[p].where) = {key}

\* an updateOneRelation has completed whose previous owner was document id
C15_WitnessSameOwner ==
  \E p \in Procs :
    /\ Completed(p, "updateOneRelation")
    /\ owners(pc[p].pre, pc[p].collection, pc[p].where) = {pc[p].ref}

\* C18: two updateOneRelation calls for the same foreignKey and foreignId on
\* different documents, started from a collection with at most one owner and
\* interleaved in any way, leave at most one document with the field equal
\* to foreignId once both have completed.
C18_OneOwnerUnderRaces ==
  \A p \in Procs, q \in Procs :
    /\ Completed(p, "updateOneRelation")
    /\ Completed(q, "updateOneRelation")
    /\ pc[p].ref # pc[q].ref
    /\ pc[p].where = pc[q].where
    /\ Cardinality(owners(pc[p].pre, pc[p].collection, pc[p].where)) <= 1
    /\ Cardinality(owners(pc[q].pre, pc[q].collection, pc[q].where)) <= 1
    => Cardinality(owners(db, pc[p].collection, pc[p].where)) <= 1

(***************************************************************************)
(* Races on the join records                                               *)
(***************************************************************************)
\* no call is in progress
Quiescent == \A p \in Procs : pc[p].status # "run"

\* C16: addId calls on different pairs that share a join record, their writes
\* interleaved in any way, lose no update: once all calls have completed,
\* the link of every one of them is visible in both directions.
C16_ConcurrentAddIdLosesNoUpdate ==
  Quiescent =>
    \A p \in Procs :
      Completed(p, "addId")
      => /\ Contains(joinModelBOn(db, pc[p].a), pc[p].b)
         /\ Contains(joinModelAOn(db, pc[p].b), pc[p].a)

\* two addId calls on different pairs with the same a have completed, both
\* begun before either had written
C16_Witness ==
  \E p \in Procs, q \in Procs :
    /\ Completed(p, "addId") /\ Completed(q, "addId")
    /\ pc[p].a = pc[q].a
    /\ pc[p].b # pc[q].b
    /\ pc[p].pre = pc[q].pre
    /\ unlinked(pc[p].pre, pc[p].a, pc[p].b)
    /\ unlinked(pc[q].pre, pc[q].a, pc[q].b)

\* C17: with addId({a, b}) and removeId({a, b}) calls interleaved in any way
\* and none faulting, whenever no call is in progress b is in the join array
\* of _A_B/a if and only if a is in the join array of _B_A/b.
C17_LinkSymmetryAtQuiescence ==
  Quiescent =>
    \A a \in Keys, b \in Keys :
      b \in Range(idsAt(db, TableAB, a)) <=> a \in Range(idsAt(db, TableBA, b))
====
